---- MODULE Spec2Model ----
(***************************************************************************)
(* helix-core/src/comment.rs: toggling line comments over a selection and  *)
(* continuing a comment on a new line.                                     *)
(*                                                                         *)
(* A text (Rope, RopeSlice, String, &str) is a sequence of characters,     *)
(* each character a one-character string.  Line and column indices are     *)
(* 0-based as in the source; TLA+ sequences are 1-based, so character k of *)
(* a text t is t[k + 1].  An Option is a sequence of length at most one.   *)
(***************************************************************************)
EXTENDS Integers, Sequences, FiniteSets

VARIABLES
    doc,          \* the document (Rope)
    selection,    \* the selection, as the (start, end) line_range of each range
    token,        \* Option<&str> handed to toggle_line_comments
    orig,         \* the document before the first toggle
    prev,         \* the document before the latest toggle
    toggles,      \* number of toggle_line_comments transactions applied
    status,       \* "ok", or "panic" once Transaction::change rejected the changes
    lines,        \* the line indices last handed to find_line_comment
    flc,          \* what find_line_comment last returned
    transaction,  \* the Changes of the last Transaction
    tokens,       \* comment tokens handed to get_comment_token_and_position
    line_idx,     \* line handed to get_comment_token_and_position
    found,        \* what get_comment_token_and_position last returned
    text,         \* destination String of handle_comment_continue
    scanned,      \* what chars::count_whitespace_after last reported
    op            \* the latest operation

vars == <<doc, selection, token, orig, prev, toggles, status, lines, flc,
          transaction, tokens, line_idx, found, text, scanned, op>>

---------------------------------------------------------------------------
(* Bounds of the model.                                                    *)

MaxLines == 2       \* lines of a document
MaxRanges == 2      \* ranges of a selection
MaxToggles == 2     \* transactions applied in a row
MaxInput == 2       \* line indices handed to find_line_comment directly
MaxTokens == 2      \* comment tokens handed to the matcher

---------------------------------------------------------------------------
(* Characters and strings.                                                 *)

SP == " "
NL == "\n"
WIDE == "é"         \* a character of two bytes in UTF-8

None == <<>>
Some(v) == <<v>>

Min(a, b) == IF a < b THEN a ELSE b
SetMin(S) == CHOOSE x \in S : \A y \in S : x <= y
SetMax(S) == CHOOSE x \in S : \A y \in S : y <= x

\* char::is_whitespace, on the characters of the model
is_whitespace(ch) == ch \in {SP, NL}

\* char::len_utf8
len_utf8(ch) == IF ch = WIDE THEN 2 ELSE 1

\* str::len: the length in bytes
RECURSIVE len(_)
len(s) == IF s = <<>> THEN 0 ELSE len_utf8(Head(s)) + len(Tail(s))

\* str::chars().count(): the length in characters
chars_count(s) == Len(s)

\* RopeSlice::slice(from..to), character indices, half open
slice(s, from, to) == SubSeq(s, from + 1, to)

\* RopeSlice::get_char(idx)
get_char(s, idx) == IF idx < Len(s) THEN Some(s[idx + 1]) ELSE None

\* Rope::len_lines: one more than the number of line breaks
len_lines(t) == 1 + Cardinality({i \in 1..Len(t) : t[i] = NL})

\* Rope::line_to_char: the character index at which line l starts
line_to_char(t, l) ==
    IF l = 0 THEN 0
    ELSE CHOOSE i \in 1..Len(t) :
            /\ t[i] = NL
            /\ Cardinality({j \in 1..i : t[j] = NL}) = l

\* Rope::line: line l with its line break, if it has one
line(t, l) ==
    LET from == line_to_char(t, l)
        to == IF l + 1 < len_lines(t) THEN line_to_char(t, l + 1) ELSE Len(t)
    IN  slice(t, from, to)

\* chars::find_first_non_whitespace_char
find_first_non_whitespace_char(s) ==
    LET S == {i \in 0..(Len(s) - 1) : ~is_whitespace(s[i + 1])}
    IN  IF S = {} THEN None ELSE Some(SetMin(S))

\* the number of whitespace characters from index `from` up to the next
\* non-whitespace character of s, if there is one
whitespace_run(s, from) ==
    LET S == {i \in from..(Len(s) - 1) : ~is_whitespace(s[i + 1])}
    IN  IF S = {} THEN None ELSE Some(SetMin(S) - from)

\* Where chars::count_whitespace_after starts counting, relative to the index
\* it is given: at that index, or at the second character after it.  Both
\* give test_handle_continue_comment its "// " and "/// ".
ScannerSkips == {0, 2}

\* chars::count_whitespace_after
count_whitespace_after(s, starting_idx, skip) == whitespace_run(s, starting_idx + skip)

---------------------------------------------------------------------------
(* find_line_comment                                                       *)

UsizeMax == 2147483647   \* stands for usize::MAX: above every column

\* the accumulators before the loop
FlcInit == [commented |-> TRUE, to_change |-> <<>>, min |-> UsizeMax, margin |-> 1]

\* FlcStep that stops looking at the margin once a line was found uncommented
flc_step_early_exit(tok, t, acc, l) ==
    LET line_slice == line(t, l)
        first == find_first_non_whitespace_char(line_slice)
    IN  IF first = None THEN acc
        ELSE LET pos == first[1]
                 length == Len(line_slice)
                 fragment == slice(line_slice, pos, Min(pos + len(tok), length))
             IN  [commented |-> acc.commented /\ fragment = tok,
                  to_change |-> Append(acc.to_change, l),
                  min       |-> IF pos < acc.min THEN pos ELSE acc.min,
                  margin    |-> IF \/ ~acc.commented
                                   \/ get_char(line_slice, pos + chars_count(tok)) = Some(SP)
                                THEN acc.margin ELSE 0]

\* FlcStep that looks at the margin of a line before it finds the line blank
flc_step_margin_first(tok, t, acc, l) ==
    LET line_slice == line(t, l)
        first == find_first_non_whitespace_char(line_slice)
    IN  IF first = None
        THEN [acc EXCEPT !.margin = IF get_char(line_slice, chars_count(tok)) = Some(SP)
                                    THEN @ ELSE 0]
        ELSE LET pos == first[1]
                 length == Len(line_slice)
                 fragment == slice(line_slice, pos, Min(pos + len(tok), length))
             IN  [commented |-> acc.commented /\ fragment = tok,
                  to_change |-> Append(acc.to_change, l),
                  min       |-> IF pos < acc.min THEN pos ELSE acc.min,
                  margin    |-> IF get_char(line_slice, pos + chars_count(tok)) = Some(SP)
                                THEN acc.margin ELSE 0]

\* one iteration of `for line in lines`
FlcStep(tok, t, acc, l) ==
    LET line_slice == line(t, l)
        first == find_first_non_whitespace_char(line_slice)
    IN  IF first = None THEN acc
        ELSE LET pos == first[1]
                 length == Len(line_slice)
                 fragment == slice(line_slice, pos, Min(pos + len(tok), length))
             IN  [commented |-> acc.commented /\ fragment = tok,
                  to_change |-> Append(acc.to_change, l),
                  min       |-> IF pos < acc.min THEN pos ELSE acc.min,
                  margin    |-> IF get_char(line_slice, pos + chars_count(tok)) = Some(SP)
                                THEN acc.margin ELSE 0]

RECURSIVE FlcLoop(_, _, _, _)
FlcLoop(tok, t, ls, acc) ==
    IF ls = <<>> THEN acc
    ELSE FlcLoop(tok, t, Tail(ls), FlcStep(tok, t, acc, Head(ls)))

find_line_comment(tok, t, ls) == FlcLoop(tok, t, ls, FlcInit)

---------------------------------------------------------------------------
(* toggle_line_comments                                                    *)

\* token.unwrap_or("//")
unwrap_or_default(tk) == IF tk = None THEN <<"/", "/">> ELSE tk[1]

\* format!("{} ", token)
comment(tok) == tok \o <<SP>>

\* usize::clamp
clamp(x, lo, hi) == IF x < lo THEN lo ELSE IF x > hi THEN hi ELSE x

\* MergeStep without the watermark: the start of the range is not clamped
merge_without_watermark(t, acc, range) ==
    LET start == Min(range[1], len_lines(t))
        end == Min(range[2] + 1, len_lines(t))
    IN  [lines |-> acc.lines \o [i \in 1..(end - start) |-> start + i - 1],
         min_next_line |-> end]

\* one iteration of `for selection in selection`: acc = [lines, min_next_line]
MergeStep(t, acc, range) ==
    LET start == clamp(range[1], acc.min_next_line, len_lines(t))
        end == Min(range[2] + 1, len_lines(t))
    IN  [lines |-> acc.lines \o [i \in 1..(end - start) |-> start + i - 1],
         min_next_line |-> end]

RECURSIVE MergeLoop(_, _, _)
MergeLoop(t, sel, acc) ==
    IF sel = <<>> THEN acc
    ELSE MergeLoop(t, Tail(sel), MergeStep(t, acc, Head(sel)))

\* the `lines` vector handed to find_line_comment
merged_lines(t, sel) == MergeLoop(t, sel, [lines |-> <<>>, min_next_line |-> 0]).lines

\* change_of with the edit placed at the line's own indentation column
change_at_own_indent(t, tok, r, l) ==
    LET pos == line_to_char(t, l) + find_first_non_whitespace_char(line(t, l))[1]
    IN  IF ~r.commented
        THEN <<pos, pos, Some(comment(tok))>>
        ELSE <<pos, pos + len(tok) + r.margin, None>>

\* change_of with the margin left out of the deletion
change_without_margin(t, tok, r, l) ==
    LET pos == line_to_char(t, l) + r.min
    IN  IF ~r.commented
        THEN <<pos, pos, Some(comment(tok))>>
        ELSE <<pos, pos + len(tok), None>>

\* one iteration of `for line in to_change`: the Change of a line
change_of(t, tok, r, l) ==
    LET pos == line_to_char(t, l) + r.min
    IN  IF ~r.commented
        THEN <<pos, pos, Some(comment(tok))>>
        ELSE <<pos, pos + len(tok) + r.margin, None>>

\* the changes handed to Transaction::change
toggle_line_comments(t, sel, tk) ==
    LET tok == unwrap_or_default(tk)
        r == find_line_comment(tok, t, merged_lines(t, sel))
    IN  [i \in 1..Len(r.to_change) |-> change_of(t, tok, r, r.to_change[i])]

---------------------------------------------------------------------------
(* get_comment_token_and_position                                          *)

\* MatchStep that keeps the first match
match_step_first_wins(line_slice, pos, result, tk) ==
    LET length == Len(line_slice)
        fragment == slice(line_slice, pos, Min(pos + len(tk), length))
    IN  IF fragment = tk /\ result = None
        THEN Some(<<tk, pos + len(tk) - 1>>)
        ELSE result

\* one iteration of `for token in tokens`
MatchStep(line_slice, pos, result, tk) ==
    LET length == Len(line_slice)
        fragment == slice(line_slice, pos, Min(pos + len(tk), length))
    IN  IF fragment = tk THEN Some(<<tk, pos + len(tk) - 1>>) ELSE result

RECURSIVE MatchLoop(_, _, _, _)
MatchLoop(line_slice, pos, tks, result) ==
    IF tks = <<>> THEN result
    ELSE MatchLoop(line_slice, pos, Tail(tks), MatchStep(line_slice, pos, result, Head(tks)))

get_comment_token_and_position(d, l, tks) ==
    IF tks = <<>> THEN None
    ELSE LET line_slice == line(d, l)
             first == find_first_non_whitespace_char(line_slice)
         IN  IF first = None THEN None
             ELSE MatchLoop(line_slice, first[1], tks, None)

---------------------------------------------------------------------------
(* handle_comment_continue                                                 *)

\* whitespace_to_insert over the half-open range 0..trailing_whitespace
whitespace_exclusive(trailing_whitespace) == [i \in 1..trailing_whitespace |-> SP]

\* (0..=trailing_whitespace).map(|_| ' ').collect::<String>()
whitespace_to_insert(trailing_whitespace) == [i \in 1..(trailing_whitespace + 1) |-> SP]

\* the destination text after the call
handle_comment_continue(d, txt, l, tks, skip) ==
    LET m == get_comment_token_and_position(d, l, tks)
    IN  IF m = None THEN txt
        ELSE LET tk == m[1][1]
                 comment_token_ending_pos == m[1][2]
                 trailing == count_whitespace_after(line(d, l), comment_token_ending_pos, skip)
             IN  IF trailing # None
                 THEN (txt \o tk) \o whitespace_to_insert(trailing[1])
                 ELSE (txt \o tk) \o <<SP>>

---------------------------------------------------------------------------
(* Transaction::change and Transaction::apply                              *)

\* Transaction::change accepts changes that are ordered, do not overlap and
\* lie within the document
changes_valid(t, changes) ==
    /\ \A i \in 1..Len(changes) :
          /\ changes[i][1] <= changes[i][2]
          /\ changes[i][2] <= Len(t)
          /\ i > 1 => changes[i - 1][2] <= changes[i][1]

RECURSIVE ApplyFrom(_, _, _)
ApplyFrom(t, changes, last) ==
    IF changes = <<>> THEN slice(t, last, Len(t))
    ELSE LET c == Head(changes)
             ins == IF c[3] = None THEN <<>> ELSE c[3][1]
         IN  slice(t, last, c[1]) \o ins \o ApplyFrom(t, Tail(changes), c[2])

\* Transaction::apply
apply(t, changes) == ApplyFrom(t, changes, 0)

---------------------------------------------------------------------------
(* Inputs.                                                                 *)

\* The lines of the documents: blank, plain, commented with and without a
\* space after the token, at column 0 and indented, and two with a wide token.
Lines == {<<>>,
          <<"a">>,
          <<SP, "a">>,
          <<"/", "/", "a">>,
          <<SP, "/", "/", "a">>,
          <<"/", "/", SP, "a">>,
          <<WIDE>>,
          <<WIDE, SP, "a">>}

\* more lines for the classifier alone: whitespace only, and a space at column 1
MoreLines == Lines \cup {<<SP>>, <<"a", SP, "b">>}

\* fewer lines where the ranges of the selection are what varies
FewLines == {<<>>, <<"a">>, <<"/", "/", "a">>}

RECURSIVE Join(_)
Join(ls) == IF Len(ls) = 1 THEN ls[1] ELSE ls[1] \o <<NL>> \o Join(Tail(ls))

DocsOf(L) == {Join(ls) : ls \in UNION {[1..n -> L] : n \in 1..MaxLines}}

Docs == DocsOf(Lines)

\* no token (the default "//"), a one-character token, a wide token
ToggleTokens == {None, Some(<<"/">>), Some(<<WIDE>>)}

MatchTokens == {<<"/">>, <<"/", "/">>, <<WIDE>>}

TokenLists == UNION {[1..n -> MatchTokens] : n \in 0..MaxTokens}

InputLines(t) == UNION {[1..n -> 0..(len_lines(t) - 1)] : n \in 0..MaxInput}

Ranges(t) == {<<s, e>> : s \in 0..(len_lines(t) - 1), e \in 0..(len_lines(t) - 1)}
                 \cap {r \in Nat \X Nat : r[1] <= r[2]}

\* ranges in ascending order that may overlap
Sorted(sel) == \A i \in 1..(Len(sel) - 1) : sel[i][1] <= sel[i + 1][1]

\* no range ends before an earlier one does
EndsAscend(sel) == \A i \in 1..(Len(sel) - 1) : sel[i][2] <= sel[i + 1][2]

SortedSelections(t, n) ==
    {sel \in UNION {[1..k -> Ranges(t)] : k \in 1..n} : Sorted(sel)}

\* The selections toggle_line_comments is called with: a Selection keeps its
\* ranges ordered and merges those that overlap, so along the ranges neither
\* the start lines nor the end lines decrease; two ranges may share lines.
Selections(t) == {sel \in SortedSelections(t, MaxRanges) : EndsAscend(sel)}

---------------------------------------------------------------------------
(* The state machine.                                                      *)

Idle ==
    /\ orig = doc
    /\ prev = doc
    /\ toggles = 0
    /\ status = "ok"
    /\ lines = <<>>
    /\ flc = FlcInit
    /\ transaction = <<>>
    /\ found = None
    /\ scanned = None
    /\ op = "init"

Init ==
    /\ doc \in Docs
    /\ selection \in Selections(doc)
    /\ token \in ToggleTokens
    /\ tokens = <<>>
    /\ line_idx = 0
    /\ text = <<>>
    /\ Idle

\* toggle_line_comments, then transaction.apply(&mut doc) and
\* selection.map(transaction.changes()): the changes stay within their lines,
\* so every range keeps its line_range.
ToggleLineComments ==
    /\ toggles < MaxToggles
    /\ status = "ok"
    /\ op \in {"init", "toggle"}
    /\ LET changes == toggle_line_comments(doc, selection, token)
       IN  /\ transaction' = changes
           /\ IF changes_valid(doc, changes)
              THEN doc' = apply(doc, changes) /\ status' = "ok"
              ELSE doc' = doc /\ status' = "panic"
    /\ lines' = merged_lines(doc, selection)
    /\ flc' = find_line_comment(unwrap_or_default(token), doc, merged_lines(doc, selection))
    /\ prev' = doc
    /\ toggles' = toggles + 1
    /\ op' = "toggle"
    /\ UNCHANGED <<selection, token, orig, tokens, line_idx, found, text, scanned>>

\* find_line_comment called on its own, as test_toggle_line_comments does
FindLineCommentCall ==
    /\ op = "init"
    /\ \E ls \in InputLines(doc) :
          /\ lines' = ls
          /\ flc' = find_line_comment(unwrap_or_default(token), doc, ls)
    /\ op' = "find"
    /\ UNCHANGED <<doc, selection, token, orig, prev, toggles, status, transaction,
                   tokens, line_idx, found, text, scanned>>

GetCommentTokenAndPositionCall ==
    /\ op = "init"
    /\ \E l \in 0..(len_lines(doc) - 1), tks \in TokenLists :
          /\ line_idx' = l
          /\ tokens' = tks
          /\ found' = get_comment_token_and_position(doc, l, tks)
    /\ op' = "match"
    /\ UNCHANGED <<doc, selection, token, orig, prev, toggles, status, lines, flc,
                   transaction, text, scanned>>

HandleCommentContinueCall ==
    /\ op = "init"
    /\ \E l \in 0..(len_lines(doc) - 1), tks \in TokenLists, skip \in ScannerSkips :
          LET m == get_comment_token_and_position(doc, l, tks)
          IN  /\ line_idx' = l
              /\ tokens' = tks
              /\ found' = m
              /\ scanned' = IF m = None THEN None
                            ELSE Some(count_whitespace_after(line(doc, l), m[1][2], skip))
              /\ text' = handle_comment_continue(doc, text, l, tks, skip)
    /\ op' = "continue"
    /\ UNCHANGED <<doc, selection, token, orig, prev, toggles, status, lines, flc,
                   transaction>>

Next == ToggleLineComments

Spec == Init /\ [][Next]_vars

\* selections whose ranges may be nested
InitOverlap ==
    /\ doc \in DocsOf(FewLines)
    /\ selection \in SortedSelections(doc, MaxRanges + 1)
    /\ token = None
    /\ tokens = <<>>
    /\ line_idx = 0
    /\ text = <<>>
    /\ Idle

SpecOverlap == InitOverlap /\ [][Next]_vars

\* the classifier on any list of line indices, and a toggle of the whole document
InitClassify ==
    /\ doc \in DocsOf(MoreLines)
    /\ selection = <<<<0, len_lines(doc) - 1>>>>
    /\ token \in ToggleTokens
    /\ tokens = <<>>
    /\ line_idx = 0
    /\ text = <<>>
    /\ Idle

NextClassify == FindLineCommentCall \/ ToggleLineComments

SpecClassify == InitClassify /\ [][NextClassify]_vars

\* the matcher and the continuation, the destination starting as the document
InitMatch ==
    /\ doc \in Docs
    /\ selection = <<<<0, len_lines(doc) - 1>>>>
    /\ token = None
    /\ tokens = <<>>
    /\ line_idx = 0
    /\ text = doc
    /\ Idle

NextMatch == GetCommentTokenAndPositionCall \/ HandleCommentContinueCall

SpecMatch == InitMatch /\ [][NextMatch]_vars

---------------------------------------------------------------------------
(* What the claims speak of, stated on the text itself.                    *)

\* the token toggle_line_comments works with
Tok == unwrap_or_default(token)

IsBlank(t, l) == find_first_non_whitespace_char(line(t, l)) = None

\* the indentation column of a non-blank line
Indent(t, l) == find_first_non_whitespace_char(line(t, l))[1]

\* the characters of tok stand at the indentation column of line l
HasToken(t, l, tok) ==
    LET s == line(t, l)
    IN  /\ ~IsBlank(t, l)
        /\ Indent(t, l) + Len(tok) <= Len(s)
        /\ \A k \in 1..Len(tok) : s[Indent(t, l) + k] = tok[k]

\* the lines some range of the selection covers
Selected(t, sel) ==
    {l \in 0..(len_lines(t) - 1) : \E i \in DOMAIN sel : sel[i][1] <= l /\ l <= sel[i][2]}

NonBlankSelected(t, sel) == {l \in Selected(t, sel) : ~IsBlank(t, l)}

OneByteToken == len(Tok) = Len(Tok)

\* C4: when some non-blank selected line lacks the token at its indentation,
\* the transaction is one zero-width insertion of token + space per non-blank
\* selected line, each at the minimum indentation column of those lines, and
\* no other line gets a Change.
C4_CommentingInsertions ==
    (op = "toggle" /\ \E l \in NonBlankSelected(prev, selection) : ~HasToken(prev, l, Tok))
    => LET NB == NonBlankSelected(prev, selection)
           col == SetMin({Indent(prev, l) : l \in NB})
       IN  /\ Len(transaction) = Cardinality(NB)
           /\ {transaction[i] : i \in DOMAIN transaction}
                 = {<<line_to_char(prev, l) + col, line_to_char(prev, l) + col,
                      Some(Tok \o <<SP>>)>> : l \in NB}

\* a commenting toggle over two lines of different indentation
C4_Witness ==
    /\ op = "toggle"
    /\ \E l \in NonBlankSelected(prev, selection) : ~HasToken(prev, l, Tok)
    /\ \E l1, l2 \in NonBlankSelected(prev, selection) : Indent(prev, l1) < Indent(prev, l2)
    /\ Len(transaction) = 2

C2_DeletionCoversTokenOnly ==
    (op = "toggle" /\ flc.commented /\ OneByteToken)
    => \A i \in DOMAIN transaction :
          LET l == flc.to_change[i]
              from == line_to_char(prev, l) + Indent(prev, l)
              to == from + Len(Tok) + flc.margin
          IN  /\ transaction[i] = <<from, to, None>>
              /\ to <= Len(prev)
              /\ slice(prev, from, to) = Tok \o (IF flc.margin = 1 THEN <<SP>> ELSE <<>>)

\* C9: the token is compared and removed by its length in characters: lines
\* that all carry the token right after their indentation are classified
\* commented, whatever follows the token, and each deletion is as wide as the
\* token's characters plus the margin.
C9_LengthInCharacters ==
    op = "toggle"
    => /\ (\A l \in NonBlankSelected(prev, selection) : HasToken(prev, l, Tok))
            => flc.commented
       /\ flc.commented
            => \A i \in DOMAIN transaction :
                  transaction[i][2] - transaction[i][1] = Len(Tok) + flc.margin

\* every line index once and ascending, every Change after the one before it
MergedAscending ==
    /\ \A i \in 1..(Len(lines) - 1) : lines[i] < lines[i + 1]
    /\ \A i \in 1..(Len(transaction) - 1) :
          /\ transaction[i][1] < transaction[i + 1][1]
          /\ transaction[i][2] <= transaction[i + 1][1]

\* C3, as claimed: for ranges sorted by start line that overlap, nested ones
\* included, the merge lists every line once, ascending, and the Changes are
\* strictly ascending and do not overlap.
C3_MergedAscending == op = "toggle" => MergedAscending

\* C3, amended: the same, for ranges sorted by start line of which none ends
\* before an earlier one ends.
C3_MergedAscendingUnnested == (op = "toggle" /\ EndsAscend(selection)) => MergedAscending

\* two ranges that share a line, both contributing a Change
C3_Witness ==
    /\ op = "toggle"
    /\ EndsAscend(selection)
    /\ \E i \in 1..(Len(selection) - 1) :
          /\ selection[i + 1][1] <= selection[i][2]
          /\ selection[i][2] < selection[i + 1][2]
    /\ Len(transaction) >= 2

\* the character after the token's place on non-blank line l is a single space
SpaceAfterToken(t, l, tok) ==
    LET s == line(t, l)
        col == Indent(t, l) + Len(tok)
    IN  col < Len(s) /\ s[col + 1] = SP

\* C7: the margin is 0 or 1, and it is 0 exactly when some non-blank input
\* line has no character, or one that is not a space, at its indentation
\* column plus the token's length in characters; every non-blank line counts,
\* also those after a line that made commented false.
C7_MarginRule ==
    op = "find"
    => /\ flc.margin \in {0, 1}
       /\ flc.margin = 0
            <=> \E i \in DOMAIN lines :
                   ~IsBlank(doc, lines[i]) /\ ~SpaceAfterToken(doc, lines[i], Tok)

\* the first line makes commented false and has its space, a later one has not
C7_Witness ==
    /\ op = "find"
    /\ Len(lines) >= 2
    /\ ~IsBlank(doc, lines[1])
    /\ ~HasToken(doc, lines[1], Tok)
    /\ SpaceAfterToken(doc, lines[1], Tok)
    /\ ~flc.commented
    /\ flc.margin = 0

\* the input without its blank lines
NonBlankInput(t, ls) == LET keep(l) == ~IsBlank(t, l) IN SelectSeq(ls, keep)

\* C8: find_line_comment puts exactly the non-blank input lines, in order, into
\* to_change; commented, margin and min are those of the input without its
\* blank lines; and a toggle over blank lines only has no Change.
C8_BlankLineNeutrality ==
    /\ op = "find"
         => /\ flc.to_change = NonBlankInput(doc, lines)
            /\ LET r == find_line_comment(Tok, doc, NonBlankInput(doc, lines))
               IN  /\ r.commented = flc.commented
                   /\ r.margin = flc.margin
                   /\ r.min = flc.min
    /\ (op = "toggle" /\ NonBlankSelected(prev, selection) = {})
         => transaction = <<>>

\* blank and non-blank lines in the input, the non-blank ones commented
\* with a space
C8_Witness ==
    /\ op = "find"
    /\ \E i \in DOMAIN lines : IsBlank(doc, lines[i])
    /\ flc.to_change # <<>>
    /\ flc.commented
    /\ flc.margin = 1

\* token tk equals the slice of line l that starts at the indentation column
\* and is as long as tk.len(), clipped to the line
MatchesAt(t, l, tk) ==
    /\ ~IsBlank(t, l)
    /\ LET s == line(t, l)
       IN  slice(s, Indent(t, l), Min(Indent(t, l) + len(tk), Len(s))) = tk

\* the places in the token list of the tokens that match line_idx
Matching == {i \in DOMAIN tokens : MatchesAt(doc, line_idx, tokens[i])}

C6_LongestMatchWins ==
    (op = "match" /\ Matching # {})
    => /\ found # None
       /\ \A i \in Matching : Len(tokens[i]) <= Len(found[1][1])

\* n space characters
Spaces(n) == [i \in 1..n |-> SP]

\* C10: the continuation only appends to the destination: nothing when the
\* matcher returns none, else the matched token and then spaces only, one
\* when the scanner reports no count or zero, count + 1 when it reports more.
C10_ContinuationPrefix ==
    op = "continue"
    => IF found = None
       THEN text = orig
       ELSE LET report == scanned[1]
                n == IF report = None \/ report = Some(0) THEN 1 ELSE report[1] + 1
            IN  /\ n >= 1
                /\ text = (orig \o found[1][1]) \o Spaces(n)

\* the scanner reports a positive count
C10_Witness ==
    /\ op = "continue"
    /\ found # None
    /\ scanned[1] # None
    /\ scanned[1][1] > 0
    /\ Len(text) = Len(orig) + Len(found[1][1]) + scanned[1][1] + 1

====
